---- MODULE Spec2Model ----
(***************************************************************************)
(* Document-ingestion pipeline with quota/storage accounting.              *)
(*                                                                         *)
(* The store is the "user" and "Document" tables.  Every HTTP handler is a *)
(* process whose steps are the store operations and external calls it      *)
(* awaits; the code that runs between one await and the next belongs to    *)
(* the step of the awaited operation, and handlers interleave at their     *)
(* awaits.  Two things a handler awaits touch nothing another handler can  *)
(* see, and are part of the step that precedes them: the fs.unlink of the  *)
(* request's own temporary file and the audit-log write.  A request comes  *)
(* into being with the first store read of its handler.                    *)
(*                                                                         *)
(* The requests in flight are a bag of records: which express request      *)
(* object serves a request is immaterial.                                  *)
(***************************************************************************)
EXTENDS Integers, FiniteSets, Sequences, Bags, TLC

(***************************************************************************)
(* Bounds of the model.                                                    *)
(***************************************************************************)
MaxReqs == 2
MaxTokens == 6
MaxClock == 5
MaxOver == 2
\* HTTP requests served in one behaviour

(***************************************************************************)
(* Program constants.                                                      *)
(***************************************************************************)
PremiumFloor == 100
DefaultMonthlyLimit == 5
MinTextLength == 50
MaxFileSize == 25
AdminWindowMs == 60000
AdminMax == 120
ResetDays == 30

Users == {"u1", "u2"}
Uploaders == {"u1"}
\* the session user of the uploads
FileSizes == {2}
\* file.size of an uploaded file
TextLens == {0, 30, 49, 50}
\* text.trim().length of what the extractor returns
InitDocs == {[id |-> 1, userId |-> "u1", fileSize |-> 3],
             [id |-> 2, userId |-> "u2", fileSize |-> 2]}
NoDoc == 0
\* an id no Document has
FirstId == Cardinality(InitDocs) + 1
\* the id of the first Document an upload creates

VARIABLES users, docs, nextId, req, started, now, repair, limiter

vars == <<users, docs, nextId, req, started, now, repair, limiter>>

Max(a, b) == IF a > b THEN a ELSE b

RECURSIVE SumSizes(_)
SumSizes(ds) ==
  IF ds = {} THEN 0
  ELSE LET d == CHOOSE x \in ds : TRUE IN d.fileSize + SumSizes(ds \ {d})

DocsOf(u) == {d \in docs : d.userId = u}
DocById(id) == {d \in docs : d.id = id}

(***************************************************************************)
(* utils/limits.js and the pure parts of the handlers                      *)
(***************************************************************************)
getMonthlyLimit_NoFloor(user) == user.monthlyLimit

getMonthlyLimit_PlanOnly(user) ==
  Max(user.monthlyLimit, IF user.plan = "premium" THEN PremiumFloor ELSE 0)

getMonthlyLimit(user) ==
  LET baseLimit == user.monthlyLimit
      isPremium == user.plan = "premium" \/ user.role = "admin"
      minLimit  == IF isPremium THEN PremiumFloor ELSE 0
  IN Max(baseLimit, minLimit)

getRemainingDocuments(user) == Max(getMonthlyLimit(user) - user.documentsUsed, 0)

QuotaExceeded_OffByOne(dbUser) == dbUser.documentsUsed > getMonthlyLimit(dbUser)

QuotaExceeded_Always(dbUser) == TRUE

QuotaExceeded(dbUser) == dbUser.documentsUsed >= getMonthlyLimit(dbUser)

ResetDue_After30(at, lastReset) == at - lastReset > ResetDays

ResetDue(at, lastReset) == at - lastReset >= ResetDays

TextTooShort_OffByOne(len) == len = 0 \/ len < MinTextLength - 1

TextTooShort(len) == len = 0 \/ len < MinTextLength

NextStorage_NoFloor(currentStorage, fileSize) == currentStorage - fileSize

NextStorage_KeepOnUnderflow(currentStorage, fileSize) ==
  LET nextStorage == currentStorage - fileSize
  IN IF nextStorage > 0 THEN nextStorage ELSE currentStorage

NextStorage(currentStorage, fileSize) ==
  LET nextStorage == currentStorage - fileSize
  IN IF nextStorage > 0 THEN nextStorage ELSE 0

AccountUpdate_CountOnly(row, dbUser, fileSize) ==
  [row EXCEPT !.documentsUsed = @ + 1]

AccountUpdate_FromRead(row, dbUser, fileSize) ==
  [row EXCEPT !.documentsUsed = dbUser.documentsUsed + 1,
              !.storageUsed = @ + fileSize]

AccountUpdate(row, dbUser, fileSize) ==
  [row EXCEPT !.documentsUsed = @ + 1, !.storageUsed = @ + fileSize]

StatusOf(exit) ==
  CASE exit = "success"    -> 200
    [] exit = "nofile"     -> 400
    [] exit = "notfound"   -> 404
    [] exit = "quota"      -> 403
    [] exit = "shorttext"  -> 400
    [] exit = "forbidden"  -> 403
    [] OTHER               -> 500

(***************************************************************************)
(* Initial state: two users with one document each, the monthly reset one  *)
(* day short of due.  The storage counter of u1 is in step with its        *)
(* documents; u2's row has storageUsed at the column default 0 though it   *)
(* owns a document: the rows the backfill script is there for, and what an *)
(* upload leaves when its accounting update throws.  One of the two users  *)
(* is an admin.                                                            *)
(***************************************************************************)
\* createRateLimiter: the Map hits of one limiter, by key.  seen and last
\* are not the program's: the windows as the requests open them, with the
\* requests that arrived and were passed on in each, and the last outcome.
Keys == {"k1", "k2"}
NoEntry == [start |-> -1, count |-> 0]
NoWindow == [start |-> -1, arrived |-> 0, passed |-> 0]
TooManyRequests == 429
PassedOn == 0

NewLimiter(windowMs, max) ==
  [windowMs |-> windowMs, max |-> max,
   hits |-> [k \in Keys |-> NoEntry],
   seen |-> [k \in Keys |-> NoWindow],
   last |-> [key |-> "none", at |-> -1, status |-> PassedOn]]

NoRow == [documentsUsed |-> 0, monthlyLimit |-> 0, plan |-> "none", role |-> "none"]
NoCounters == [documentsUsed |-> 0, storageUsed |-> 0]

NoReport == [documentsUsed |-> 0, monthlyLimit |-> 0, remainingDocuments |-> 0]

NewReq ==
  [kind |-> "none", pc |-> "start", user |-> "none", isAdmin |-> FALSE,
   size |-> 0, docId |-> NoDoc, owner |-> "none", dbUser |-> NoRow, cur |-> 0,
   textLen |-> -1, genCalls |-> 0, eff |-> {}, temp |-> "none",
   unlinkFailed |-> FALSE, audit |-> "none", exit |-> "none", status |-> 0,
   before |-> NoCounters, pre |-> NoCounters, at |-> 0, report |-> NoReport,
   responseText |-> <<>>]

UserRow(role, plan, used, storage) ==
  [exists |-> TRUE, role |-> role, plan |-> plan,
   monthlyLimit |-> DefaultMonthlyLimit, documentsUsed |-> used,
   storageUsed |-> storage, lastReset |-> 0]

GoneRow ==
  [exists |-> FALSE, role |-> "none", plan |-> "none", monthlyLimit |-> 0,
   documentsUsed |-> 0, storageUsed |-> 0, lastReset |-> 0]

InitUsers ==
  { [u1 |-> UserRow("user", "free", 4, 3),     u2 |-> UserRow("admin", "free", 0, 0)],
    [u1 |-> UserRow("user", "premium", 50, 3), u2 |-> UserRow("admin", "free", 0, 0)],
    [u1 |-> UserRow("admin", "free", 50, 3),   u2 |-> UserRow("user", "free", 0, 0)] }

Init ==
  /\ users \in InitUsers
  /\ docs = InitDocs
  /\ nextId = FirstId
  /\ req = EmptyBag
  /\ started = 0
  /\ now = ResetDays - 1
  /\ repair = [pc |-> "idle", summaries |-> {}]
  /\ limiter = NewLimiter(AdminWindowMs, AdminMax)

(***************************************************************************)
(* Requests                                                                *)
(***************************************************************************)
InFlight == BagToSet(req)

\* A response that is out is not held back by what the other handlers do.
NoneDone == \A q \in InFlight : q.pc # "done"

CanStart == started < MaxReqs /\ NoneDone

At(rec, kind, pc) == rec \in InFlight /\ rec.kind = kind /\ rec.pc = pc /\ NoneDone

Put(rec) == req (+) SetToBag({rec})
Replace(old, new) == (req (-) SetToBag({old})) (+) SetToBag({new})

Counters(row) == [documentsUsed |-> row.documentsUsed, storageUsed |-> row.storageUsed]

Snapshot(row) ==
  [documentsUsed |-> row.documentsUsed, monthlyLimit |-> row.monthlyLimit,
   plan |-> row.plan, role |-> row.role]

\* The response is out and express drops the request object.
Forget(rec) ==
  /\ rec \in InFlight /\ rec.pc = "done"
  /\ req' = req (-) SetToBag({rec})
  /\ UNCHANGED <<users, docs, nextId, started, now, repair, limiter>>

(***************************************************************************)
(* POST /upload                                                            *)
(***************************************************************************)
\* An exit of the handler: fs.unlink(file.path).catch(() => {}), ok telling
\* whether the unlink worked, then the response.
Exit_StatusFromUnlink(rec, exit, ok) ==
  [rec EXCEPT !.pc = "done", !.exit = exit,
              !.temp = IF ok THEN "deleted" ELSE @,
              !.unlinkFailed = ~ok,
              !.status = IF ok THEN StatusOf(exit) ELSE 500]

Exit_KeepOnReject(rec, exit, ok) ==
  [rec EXCEPT !.pc = "done", !.exit = exit,
              !.temp = IF ok /\ exit # "quota" THEN "deleted" ELSE @,
              !.unlinkFailed = ~ok,
              !.status = StatusOf(exit)]

Exit(rec, exit, ok) ==
  [rec EXCEPT !.pc = "done", !.exit = exit,
              !.temp = IF ok THEN "deleted" ELSE @,
              !.unlinkFailed = ~ok,
              !.status = StatusOf(exit)]

\* The quota check on the row the handler holds after the reset step.
QuotaCheck(rec, dbUser, ok) ==
  IF QuotaExceeded(dbUser)
  THEN [Exit(rec, "quota", ok) EXCEPT !.dbUser = dbUser]
  ELSE [rec EXCEPT !.pc = "extract", !.dbUser = dbUser]

\* multer has stored the file (if any); prisma.user.findUnique; then
\* resetMonthlyUsageIfNeeded up to its update, or on to the quota check.
\* t is what new Date() gives: the clock is read here and nowhere else, so
\* this is where the time that has passed shows.
UploadStart(u, size, hasFile, t) ==
  /\ CanStart
  /\ users[u].exists
  /\ started' = started + 1
  /\ t >= now
  /\ now' = t
  /\ LET row == users[u]
         rec == [NewReq EXCEPT !.kind = "upload", !.user = u,
                               !.before = Counters(row)]
         got == [rec EXCEPT !.size = size, !.temp = "present"]
     IN \E ok \in BOOLEAN :
          req' = Put(IF ~hasFile
                     THEN [rec EXCEPT !.pc = "done", !.exit = "nofile",
                                      !.status = StatusOf("nofile")]
                     ELSE IF ResetDue(t, row.lastReset)
                          THEN [got EXCEPT !.pc = "reset", !.dbUser = Snapshot(row),
                                           !.at = t]
                          ELSE QuotaCheck(got, Snapshot(row), ok))
  /\ UNCHANGED <<users, docs, nextId, repair, limiter>>

\* The findUnique of a handler whose user has been deleted since requireAuth.
UploadUserGone(u, size) ==
  /\ CanStart
  /\ ~users[u].exists
  /\ started' = started + 1
  /\ \E ok \in BOOLEAN :
       req' = Put(Exit([NewReq EXCEPT !.kind = "upload", !.user = u, !.size = size,
                                      !.temp = "present"], "notfound", ok))
  /\ UNCHANGED <<users, docs, nextId, now, repair, limiter>>

\* The update of resetMonthlyUsageIfNeeded; it returns the updated row.
UploadReset(rec) ==
  /\ At(rec, "upload", "reset")
  /\ LET u == rec.user IN
       \E ok \in BOOLEAN :
         IF users[u].exists
         THEN /\ users' = [users EXCEPT ![u].documentsUsed = 0, ![u].lastReset = rec.at]
              /\ req' = Replace(rec, QuotaCheck([rec EXCEPT !.eff = @ \cup {"reset"}],
                                                Snapshot(users'[u]), ok))
         ELSE /\ req' = Replace(rec, Exit(rec, "resetError", ok))
              /\ UNCHANGED users
  /\ UNCHANGED <<docs, nextId, started, now, repair, limiter>>

\* extractTextFromFile and the text-length check.
UploadExtract(rec) ==
  /\ At(rec, "upload", "extract")
  /\ \E ok \in BOOLEAN :
       \/ req' = Replace(rec, Exit(rec, "extractError", ok))
       \/ \E len \in TextLens :
            req' = Replace(rec,
              IF TextTooShort(len)
              THEN Exit([rec EXCEPT !.textLen = len], "shorttext", ok)
              ELSE [rec EXCEPT !.pc = "generate", !.textLen = len])
  /\ UNCHANGED <<users, docs, nextId, started, now, repair, limiter>>

\* generateStudyMaterials: one completion call and JSON.parse; it rethrows.
GenerateFailed_Retry(rec, ok) ==
  IF rec.genCalls = 0 THEN [rec EXCEPT !.genCalls = @ + 1]
  ELSE Exit([rec EXCEPT !.genCalls = @ + 1], "generationError", ok)

GenerateFailed(rec, ok) == Exit([rec EXCEPT !.genCalls = @ + 1], "generationError", ok)

UploadGenerate(rec) ==
  /\ At(rec, "upload", "generate")
  /\ \E ok \in BOOLEAN :
       \/ req' = Replace(rec, GenerateFailed(rec, ok))
       \/ req' = Replace(rec, [rec EXCEPT !.pc = "create", !.genCalls = @ + 1])
  /\ UNCHANGED <<users, docs, nextId, started, now, repair, limiter>>

\* The completion's text as a sequence of tokens: a code fence, the tag
\* json, a run of whitespace, a JSON value, anything else.
Tokens == {"fence", "json", " ", "{}", "x"}

ResponseTexts == UNION {[1..n -> Tokens] : n \in 0..MaxTokens}

RECURSIVE TrimStart(_)
TrimStart(text) ==
  IF text # <<>> /\ Head(text) = " " THEN TrimStart(Tail(text)) ELSE text

RECURSIVE TrimEnd(_)
TrimEnd(text) ==
  IF text # <<>> /\ text[Len(text)] = " "
  THEN TrimEnd(SubSeq(text, 1, Len(text) - 1)) ELSE text

\* String.prototype.trim
Trim(text) == TrimEnd(TrimStart(text))

\* The first alternative of /^(fence)json\s*|\s*(fence)$/g: it matches at the start
\* only; the second is then looked for in what follows the match.
StripOpen(text) ==
  IF Len(text) >= 2 /\ text[1] = "fence" /\ text[2] = "json"
  THEN TrimStart(SubSeq(text, 3, Len(text)))
  ELSE text

\* The second alternative: the fence at the end with the whitespace before it.
StripClose(text) ==
  IF text # <<>> /\ text[Len(text)] = "fence"
  THEN TrimEnd(SubSeq(text, 1, Len(text) - 1))
  ELSE text

\* responseText.replace(...) of the trimmed content.
cleanedResponse(responseText) == StripClose(StripOpen(Trim(responseText)))

\* JSON.parse: whitespace around the one value is allowed, nothing else.
ParseThrows(cleaned) == Trim(cleaned) # <<"{}">>

\* generateStudyMaterials on a completion whose text is responseText.
UploadGenerateFrom(rec, responseText) ==
  /\ At(rec, "upload", "generate")
  /\ LET got == [rec EXCEPT !.responseText = responseText]
     IN IF ParseThrows(cleanedResponse(responseText))
        THEN \E ok \in BOOLEAN : req' = Replace(rec, GenerateFailed(got, ok))
        ELSE req' = Replace(rec, [got EXCEPT !.pc = "create", !.genCalls = @ + 1])
  /\ UNCHANGED <<users, docs, nextId, started, now, repair, limiter>>

\* prisma.document.create; the foreign key needs the user row.  fail: the
\* store throws for a reason of its own (connection, timeout).
UploadCreate_CountFirst(rec, fail) ==
  /\ At(rec, "upload", "create")
  /\ users[rec.user].exists
  /\ users' = [users EXCEPT ![rec.user] = AccountUpdate(@, rec.dbUser, rec.size)]
  /\ IF ~fail
     THEN /\ docs' = docs \cup {[id |-> nextId, userId |-> rec.user,
                                 fileSize |-> rec.size]}
          /\ nextId' = nextId + 1
          /\ req' = Replace(rec, [rec EXCEPT !.pc = "account", !.docId = nextId,
                                             !.eff = @ \cup {"doc"}])
     ELSE /\ \E ok \in BOOLEAN : req' = Replace(rec, Exit(rec, "persistError", ok))
          /\ UNCHANGED <<docs, nextId>>
  /\ UNCHANGED <<started, now, repair, limiter>>

UploadCreate(rec, fail) ==
  /\ At(rec, "upload", "create")
  /\ IF users[rec.user].exists /\ ~fail
     THEN /\ docs' = docs \cup {[id |-> nextId, userId |-> rec.user,
                                 fileSize |-> rec.size]}
          /\ nextId' = nextId + 1
          /\ req' = Replace(rec, [rec EXCEPT !.pc = "account", !.docId = nextId,
                                             !.eff = @ \cup {"doc"}])
     ELSE /\ \E ok \in BOOLEAN : req' = Replace(rec, Exit(rec, "persistError", ok))
          /\ UNCHANGED <<docs, nextId>>
  /\ UNCHANGED <<users, started, now, repair, limiter>>

\* prisma.user.update with the two increments, then unlink and the response.
UploadAccount(rec, fail) ==
  /\ At(rec, "upload", "account")
  /\ LET u == rec.user
         r2 == [rec EXCEPT !.pre = Counters(users[u])]
     IN \E ok \in BOOLEAN :
          IF users[u].exists /\ ~fail
          THEN /\ users' = [users EXCEPT ![u] = AccountUpdate(@, rec.dbUser, rec.size)]
               /\ req' = Replace(rec, Exit([r2 EXCEPT !.eff = @ \cup {"account"}],
                                           "success", ok))
          ELSE /\ req' = Replace(rec, Exit(r2, "accountError", ok))
               /\ UNCHANGED users
  /\ UNCHANGED <<docs, nextId, started, now, repair, limiter>>

(***************************************************************************)
(* DELETE /document/:id and DELETE /users/:id/files/:documentId            *)
(***************************************************************************)
Respond(rec, exit) ==
  [rec EXCEPT !.pc = "done", !.exit = exit, !.status = StatusOf(exit)]

Found(rec, d) ==
  [rec EXCEPT !.pc = "delete", !.docId = d.id, !.owner = d.userId,
              !.size = d.fileSize]

OwnerDeleteStart_NoCheck(caller, id) ==
  /\ CanStart
  /\ users[caller].exists
  /\ started' = started + 1
  /\ LET rec == [NewReq EXCEPT !.kind = "ownerDelete", !.user = caller,
                               !.isAdmin = (users[caller].role = "admin"),
                               !.docId = id]
     IN req' = Put(IF DocById(id) = {} THEN Respond(rec, "notfound")
                   ELSE Found(rec, CHOOSE d \in DocById(id) : TRUE))
  /\ UNCHANGED <<users, docs, nextId, now, repair, limiter>>

\* prisma.document.findUnique and the authorization check of the owner route.
OwnerDeleteStart(caller, id) ==
  /\ CanStart
  /\ users[caller].exists
  /\ started' = started + 1
  /\ LET rec == [NewReq EXCEPT !.kind = "ownerDelete", !.user = caller,
                               !.isAdmin = (users[caller].role = "admin"),
                               !.docId = id]
     IN req' = Put(IF DocById(id) = {} THEN Respond(rec, "notfound")
                   ELSE LET document == CHOOSE d \in DocById(id) : TRUE IN
                        IF ~rec.isAdmin /\ document.userId # caller
                        THEN Respond(rec, "forbidden")
                        ELSE Found(rec, document))
  /\ UNCHANGED <<users, docs, nextId, now, repair, limiter>>

\* requireAdmin, prisma.document.findUnique and the check of :id.
AdminDeleteStart(admin, id, documentId) ==
  /\ CanStart
  /\ users[admin].exists /\ users[admin].role = "admin"
  /\ started' = started + 1
  /\ LET rec == [NewReq EXCEPT !.kind = "adminDelete", !.user = admin,
                               !.isAdmin = TRUE, !.docId = documentId,
                               !.owner = id]
     IN req' = Put(IF DocById(documentId) = {} THEN Respond(rec, "notfound")
                   ELSE LET document == CHOOSE d \in DocById(documentId) : TRUE IN
                        IF document.userId # id
                        THEN Respond(rec, "notfound")
                        ELSE Found(rec, document))
  /\ UNCHANGED <<users, docs, nextId, now, repair, limiter>>

DeleteDocument_IgnoreMissing(rec) ==
  /\ rec \in InFlight /\ rec.kind \in {"ownerDelete", "adminDelete"}
  /\ rec.pc = "delete" /\ NoneDone
  /\ docs' = docs \ DocById(rec.docId)
  /\ req' = Replace(rec, [rec EXCEPT !.pc = "read"])
  /\ UNCHANGED <<users, nextId, started, now, repair, limiter>>

\* prisma.document.delete: it throws when the record is gone.
DeleteDocument(rec) ==
  /\ rec \in InFlight /\ rec.kind \in {"ownerDelete", "adminDelete"}
  /\ rec.pc = "delete" /\ NoneDone
  /\ IF DocById(rec.docId) # {}
     THEN /\ docs' = docs \ DocById(rec.docId)
          /\ req' = Replace(rec, [rec EXCEPT !.pc = "read"])
     ELSE /\ req' = Replace(rec, Respond(rec, "deleteError"))
          /\ UNCHANGED docs
  /\ UNCHANGED <<users, nextId, started, now, repair, limiter>>

\* prisma.user.findUnique({select: {storageUsed}}) of the owner.
ReadOwnerStorage(rec) ==
  /\ rec \in InFlight /\ rec.kind \in {"ownerDelete", "adminDelete"}
  /\ rec.pc = "read" /\ NoneDone
  /\ LET owner == users[rec.owner]
         currentStorage == IF owner.exists THEN owner.storageUsed ELSE 0
     IN req' = Replace(rec, [rec EXCEPT !.pc = "write", !.cur = currentStorage])
  /\ UNCHANGED <<users, docs, nextId, started, now, repair, limiter>>

WriteOwnerStorage_SessionUser(rec) ==
  /\ rec \in InFlight /\ rec.kind \in {"ownerDelete", "adminDelete"}
  /\ rec.pc = "write" /\ NoneDone
  /\ LET o == rec.user
         r2 == [rec EXCEPT !.pre = Counters(users[o])]
     IN IF users[o].exists
        THEN /\ users' = [users EXCEPT ![o].storageUsed = NextStorage(rec.cur, rec.size)]
             /\ \E logged \in BOOLEAN :
                  req' = Replace(rec, Respond(
                    [r2 EXCEPT !.eff = @ \cup {"storage"},
                               !.audit = IF rec.kind # "adminDelete" THEN "none"
                                         ELSE IF logged THEN "written" ELSE "failed"],
                    "success"))
        ELSE /\ req' = Replace(rec, Respond(r2, "updateError"))
             /\ UNCHANGED users
  /\ UNCHANGED <<docs, nextId, started, now, repair, limiter>>

WriteOwnerStorage_AuditBlocks(rec) ==
  /\ rec \in InFlight /\ rec.kind \in {"ownerDelete", "adminDelete"}
  /\ rec.pc = "write" /\ NoneDone
  /\ LET o == rec.owner
         r2 == [rec EXCEPT !.pre = Counters(users[o])]
     IN IF users[o].exists
        THEN /\ users' = [users EXCEPT ![o].storageUsed = NextStorage(rec.cur, rec.size)]
             /\ \E logged \in BOOLEAN :
                  req' = Replace(rec, Respond(
                    [r2 EXCEPT !.eff = @ \cup {"storage"},
                               !.audit = IF rec.kind # "adminDelete" THEN "none"
                                         ELSE IF logged THEN "written" ELSE "failed"],
                    IF rec.kind = "adminDelete" /\ ~logged THEN "auditError"
                    ELSE "success"))
        ELSE /\ req' = Replace(rec, Respond(r2, "updateError"))
             /\ UNCHANGED users
  /\ UNCHANGED <<docs, nextId, started, now, repair, limiter>>

\* prisma.user.update of storageUsed with the value computed from the read;
\* on the admin route logAdminAction follows; then the response.
WriteOwnerStorage(rec) ==
  /\ rec \in InFlight /\ rec.kind \in {"ownerDelete", "adminDelete"}
  /\ rec.pc = "write" /\ NoneDone
  /\ LET o == rec.owner
         r2 == [rec EXCEPT !.pre = Counters(users[o])]
     IN IF users[o].exists
        THEN /\ users' = [users EXCEPT ![o].storageUsed = NextStorage(rec.cur, rec.size)]
             /\ \E logged \in BOOLEAN :
                  req' = Replace(rec, Respond(
                    [r2 EXCEPT !.eff = @ \cup {"storage"},
                               !.audit = IF rec.kind # "adminDelete" THEN "none"
                                         ELSE IF logged THEN "written" ELSE "failed"],
                    "success"))
        ELSE /\ req' = Replace(rec, Respond(r2, "updateError"))
             /\ UNCHANGED users
  /\ UNCHANGED <<docs, nextId, started, now, repair, limiter>>

(***************************************************************************)
(* GET /me                                                                 *)
(***************************************************************************)
\* The user object of the response, computed from the row the handler holds.
MeReport_NoClamp(user) ==
  LET monthlyLimit == getMonthlyLimit(user)
  IN [documentsUsed |-> user.documentsUsed,
      monthlyLimit |-> monthlyLimit,
      remainingDocuments |-> monthlyLimit - user.documentsUsed]

MeReport(user) ==
  LET monthlyLimit == getMonthlyLimit(user)
  IN [documentsUsed |-> user.documentsUsed,
      monthlyLimit |-> monthlyLimit,
      remainingDocuments |-> Max(monthlyLimit - user.documentsUsed, 0)]

MeRespond(rec, user) ==
  [Respond(rec, "success") EXCEPT !.dbUser = user, !.report = MeReport(user)]

\* prisma.user.findUnique; t is what new Date() gives; then the update of
\* the reset, or the response.
MeStart(u, t) ==
  /\ CanStart
  /\ started' = started + 1
  /\ t >= now
  /\ now' = t
  /\ LET row == users[u]
         rec == [NewReq EXCEPT !.kind = "me", !.user = u]
         got == [rec EXCEPT !.before = Counters(row)]
     IN req' = Put(IF ~row.exists THEN Respond(rec, "notfound")
                   ELSE IF ResetDue(t, row.lastReset)
                        THEN [got EXCEPT !.pc = "reset", !.dbUser = Snapshot(row),
                                         !.at = t]
                        ELSE MeRespond(got, Snapshot(row)))
  /\ UNCHANGED <<users, docs, nextId, repair, limiter>>

\* prisma.user.update({documentsUsed: 0, lastReset: now}); it returns the
\* updated row, which the response reports.
MeReset(rec) ==
  /\ At(rec, "me", "reset")
  /\ LET u == rec.user IN
       IF users[u].exists
       THEN /\ users' = [users EXCEPT ![u].documentsUsed = 0, ![u].lastReset = rec.at]
            /\ req' = Replace(rec, MeRespond([rec EXCEPT !.eff = @ \cup {"reset"}],
                                             Snapshot(users'[u])))
       ELSE /\ req' = Replace(rec, Respond(rec, "resetError"))
            /\ UNCHANGED users
  /\ UNCHANGED <<docs, nextId, started, now, repair, limiter>>

(***************************************************************************)
(* DELETE /users/:id of the admin router: the row goes, and its documents  *)
(* with it (ON DELETE CASCADE).                                            *)
(***************************************************************************)
AdminDeleteUser(admin, id) ==
  /\ NoneDone
  /\ users[admin].exists /\ users[admin].role = "admin"
  /\ users[id].exists
  /\ users' = [users EXCEPT ![id] = GoneRow]
  /\ docs' = docs \ DocsOf(id)
  /\ UNCHANGED <<nextId, req, started, now, repair, limiter>>

(***************************************************************************)
(* The storage backfill script                                             *)
(***************************************************************************)
\* prisma.user.updateMany({data: {storageUsed: 0}})
Zeroed(us) ==
  [u \in Users |-> IF us[u].exists THEN [us[u] EXCEPT !.storageUsed = 0] ELSE us[u]]

\* prisma.document.groupBy({by: ["userId"], _sum: {fileSize}})
GroupBy_Count(ds) ==
  {[userId |-> u, sum |-> Cardinality({d \in ds : d.userId = u})] :
     u \in {d.userId : d \in ds}}

GroupBy(ds) ==
  {[userId |-> u, sum |-> SumSizes({d \in ds : d.userId = u})] :
     u \in {d.userId : d \in ds}}

\* prisma.$transaction(updates): all the updates or, if one throws, none.
Applied(us, summaries) ==
  IF \A s \in summaries : us[s.userId].exists
  THEN [u \in Users |->
          IF \E s \in summaries : s.userId = u
          THEN [us[u] EXCEPT !.storageUsed =
                  (CHOOSE s \in summaries : s.userId = u).sum]
          ELSE us[u]]
  ELSE us

\* The user table after a run of the script with nothing else running.
RepairResult_Increment(us, ds) ==
  [u \in Users |->
     IF us[u].exists
     THEN [us[u] EXCEPT !.storageUsed = @ + SumSizes({d \in ds : d.userId = u})]
     ELSE us[u]]

RepairResult(us, ds) == Applied(Zeroed(us), GroupBy(ds))

RepairZero ==
  /\ NoneDone
  /\ repair.pc = "idle"
  /\ users' = Zeroed(users)
  /\ repair' = [repair EXCEPT !.pc = "zeroed"]
  /\ UNCHANGED <<docs, nextId, req, started, now, limiter>>

RepairGroupBy ==
  /\ NoneDone
  /\ repair.pc = "zeroed"
  /\ repair' = [pc |-> "grouped", summaries |-> GroupBy(docs)]
  /\ UNCHANGED <<users, docs, nextId, req, started, now, limiter>>

RepairTransaction ==
  /\ NoneDone
  /\ repair.pc = "grouped"
  /\ users' = Applied(users, repair.summaries)
  /\ repair' = [pc |-> "idle", summaries |-> {}]
  /\ UNCHANGED <<docs, nextId, req, started, now, limiter>>

Times == {ResetDays - 1, ResetDays}
\* clock readings, in days: the reset of the initial rows not yet due, and due

Targets == {d.id : d \in docs} \cup {NoDoc}

\* The handlers of the documents router and the file deletion of the admin
\* router.  Faults: whether the store may throw for a reason of its own.
Requests(Faults) ==
  \/ \E u \in Uploaders, size \in FileSizes, hasFile \in BOOLEAN, t \in Times :
       UploadStart(u, size, hasFile, t)
  \/ \E rec \in InFlight : UploadReset(rec)
  \/ \E rec \in InFlight : UploadExtract(rec)
  \/ \E rec \in InFlight : UploadGenerate(rec)
  \/ \E rec \in InFlight, fail \in Faults : UploadCreate(rec, fail)
  \/ \E rec \in InFlight, fail \in Faults : UploadAccount(rec, fail)
  \/ \E caller \in Users, id \in Targets : OwnerDeleteStart(caller, id)
  \/ \E admin \in Users, id \in Users, documentId \in Targets :
       AdminDeleteStart(admin, id, documentId)
  \/ \E rec \in InFlight : DeleteDocument(rec)
  \/ \E rec \in InFlight : ReadOwnerStorage(rec)
  \/ \E rec \in InFlight : WriteOwnerStorage(rec)
  \/ \E rec \in InFlight : Forget(rec)

\* The deletion of users, and the upload of a session whose user is gone.
DeleteUsers ==
  \/ \E admin \in Users, id \in Users : AdminDeleteUser(admin, id)
  \/ \E u \in Uploaders, size \in FileSizes : UploadUserGone(u, size)

\* The requests, users being deleted meanwhile.
Next == Requests(BOOLEAN) \/ DeleteUsers

Spec == Init /\ [][Next]_vars

\* The same with a store that throws only for what the handlers did.
NextReliable == Requests({FALSE}) \/ DeleteUsers

SpecReliable == Init /\ [][NextReliable]_vars

\* The requests of a free user and an admin with the backfill script running.
InitRepair == Init /\ users["u1"].plan = "free" /\ users["u1"].role = "user"

NextRepair == Requests(BOOLEAN) \/ RepairZero \/ RepairGroupBy \/ RepairTransaction

SpecRepair == InitRepair /\ [][NextRepair]_vars

\* One handler at a time: a request arrives when no other is in flight.
Sequential == BagCardinality(req) <= 1

NextSeq == Next /\ Sequential'

SpecSeq == Init /\ [][NextSeq]_vars

\* The user router next to the documents router, one handler at a time.
Profile ==
  \/ \E u \in Uploaders, t \in Times : MeStart(u, t)
  \/ \E rec \in InFlight : MeReset(rec)

NextProfile == (Next \/ Profile) /\ Sequential'

SpecProfile == Init /\ [][NextProfile]_vars

\* upload.single("file"): the fileFilter's allow-list and limits.fileSize,
\* sizes in MiB.  The filter sees the part's header before the size limit
\* can trip.
AllowedTypes ==
  {"application/pdf",
   "application/vnd.openxmlformats-officedocument.wordprocessingml.document",
   "application/vnd.openxmlformats-officedocument.presentationml.presentation"}

MimeTypes == AllowedTypes \cup {"image/png"}

OfferedSizes == {2, MaxFileSize, MaxFileSize + 1}

MulterError(mimetype, size) ==
  IF mimetype \notin AllowedTypes THEN "filetype"
  ELSE IF size > MaxFileSize THEN "filesize"
  ELSE "none"

\* multer passes its error to next(err).  Neither the router nor the app
\* registers an error-handling middleware, and the errors carry no status,
\* so the handler is never entered and express's default answers.
UnhandledStatus == 500

UploadRefused(u, mimetype, size) ==
  /\ CanStart
  /\ MulterError(mimetype, size) # "none"
  /\ started' = started + 1
  /\ req' = Put([NewReq EXCEPT !.kind = "upload", !.user = u, !.pc = "done",
                               !.exit = MulterError(mimetype, size),
                               !.status = UnhandledStatus])
  /\ UNCHANGED <<users, docs, nextId, now, repair, limiter>>

Refused == \E u \in Uploaders, m \in MimeTypes, size \in OfferedSizes : UploadRefused(u, m, size)

NextUpload == (Next \/ Refused) /\ Sequential'

SpecUpload == Init /\ [][NextUpload]_vars

\* An upload of u1 that has its text and is about to call the generator.
Extracted(row) ==
  [NewReq EXCEPT !.kind = "upload", !.user = "u1", !.size = 2,
                 !.temp = "present", !.before = Counters(row),
                 !.dbUser = Snapshot(row), !.textLen = MinTextLength,
                 !.pc = "generate"]

InitGenerate ==
  /\ users \in InitUsers
  /\ docs = InitDocs
  /\ nextId = FirstId
  /\ req = SetToBag({Extracted(users["u1"])})
  /\ started = 1
  /\ now = ResetDays - 1
  /\ repair = [pc |-> "idle", summaries |-> {}]
  /\ limiter = NewLimiter(AdminWindowMs, AdminMax)

NextGenerate ==
  \/ \E rec \in InFlight :
       /\ rec.pc = "generate"
       /\ \E responseText \in ResponseTexts : UploadGenerateFrom(rec, responseText)
  \/ \E rec \in InFlight, fail \in BOOLEAN : UploadCreate(rec, fail)
  \/ \E rec \in InFlight, fail \in BOOLEAN : UploadAccount(rec, fail)
  \/ \E rec \in InFlight : Forget(rec)

SpecGenerate == InitGenerate /\ [][NextGenerate]_vars

\* The two routers with their requests interleaved, the store reliable.
NextInterleaved == NextReliable \/ Profile

SpecInterleaved == Init /\ [][NextInterleaved]_vars

\* The backfill script run while no request is in flight.
Quiet == repair.pc # "idle" => req = EmptyBag

NextRepairAlone == NextRepair /\ Quiet'

SpecRepairAlone == InitRepair /\ [][NextRepairAlone]_vars

\* One run of the script with the requests arriving during it, one handler
\* at a time, the store reliable: the script starts before the first request
\* and no request arrives once it has ended.
DuringScript ==
  /\ started' > started => repair.pc # "idle"
  /\ (repair.pc = "idle" /\ repair'.pc # "idle") => started = 0

NextRepairDuring ==
  /\ Requests({FALSE}) \/ RepairZero \/ RepairGroupBy \/ RepairTransaction
  /\ Sequential'
  /\ DuringScript

SpecRepairDuring == InitRepair /\ [][NextRepairDuring]_vars

\* now - entry.start > windowMs
WindowOver_AtBoundary(at, start, windowMs) == at - start >= windowMs

WindowOver(at, start, windowMs) == at - start > windowMs

\* The middleware on a request with key key at Date.now() = at.
Limit(key, at) ==
  /\ at >= now
  /\ now' = at
  /\ LET entry == limiter.hits[key]
         fresh == entry = NoEntry \/ WindowOver(at, entry.start, limiter.windowMs)
         hit == IF fresh THEN [start |-> at, count |-> 1]
                ELSE [entry EXCEPT !.count = @ + 1]
         status == IF ~fresh /\ hit.count > limiter.max THEN TooManyRequests
                   ELSE PassedOn
         window == limiter.seen[key]
         opened == IF window = NoWindow \/ at > window.start + limiter.windowMs
                   THEN [start |-> at, arrived |-> 0, passed |-> 0]
                   ELSE window
     IN /\ hit.count <= limiter.max + MaxOver
        /\ limiter' = [limiter EXCEPT
              !.hits[key] = hit,
              !.seen[key] = [opened EXCEPT
                               !.arrived = @ + 1,
                               !.passed = IF status = PassedOn THEN @ + 1 ELSE @],
              !.last = [key |-> key, at |-> at, status |-> status]]
  /\ UNCHANGED <<users, docs, nextId, req, started, repair>>

WindowsMs == {1, 2}
Maxes == {1, 2}

InitLimiter ==
  /\ users \in InitUsers /\ users["u1"].plan = "free" /\ users["u1"].role = "user"
  /\ docs = InitDocs
  /\ nextId = FirstId
  /\ req = EmptyBag
  /\ started = 0
  /\ now = 0
  /\ repair = [pc |-> "idle", summaries |-> {}]
  /\ \E windowMs \in WindowsMs, max \in Maxes : limiter = NewLimiter(windowMs, max)

NextLimiter == \E key \in Keys, at \in 0..MaxClock : Limit(key, at)

SpecLimiter == InitLimiter /\ [][NextLimiter]_vars

\* GET /me on rows of every plan and role, with the limits an admin can set
\* (PATCH /users/:id accepts any monthlyLimit >= 1) and counts of documents
\* used below, at and above them.
Plans == {"free", "premium"}
Roles == {"user", "admin"}
Limits == {1, 5, 99, 100, 150}
Useds == {0, 4, 5, 6, 120}

InitLimits ==
  /\ \E role \in Roles, plan \in Plans, limit \in Limits, used \in Useds :
       users = [u1 |-> [UserRow(role, plan, used, 3) EXCEPT !.monthlyLimit = limit],
                u2 |-> UserRow("admin", "free", 0, 0)]
  /\ docs = InitDocs
  /\ nextId = FirstId
  /\ req = EmptyBag
  /\ started = 0
  /\ now = ResetDays - 1
  /\ repair = [pc |-> "idle", summaries |-> {}]
  /\ limiter = NewLimiter(AdminWindowMs, AdminMax)

NextLimits == Profile \/ \E rec \in InFlight : Forget(rec)

SpecLimits == InitLimits /\ [][NextLimits]_vars

\* One handler at a time, the store throwing only for what the handlers did.
NextSeqReliable == NextReliable /\ Sequential'

SpecSeqReliable == Init /\ [][NextSeqReliable]_vars
(***************************************************************************)
(* Properties                                                              *)
(***************************************************************************)
Uploads == {rec \in InFlight : rec.kind = "upload"}
Deletes == {rec \in InFlight : rec.kind \in {"ownerDelete", "adminDelete"}}
Done(S) == {rec \in S : rec.pc = "done"}

StorageMatchesDocuments(u) == users[u].storageUsed = SumSizes(DocsOf(u))

\* C1: u1 starts with storageUsed equal to the sum of fileSize over its
\* documents; once every upload and deletion has completed, storageUsed of
\* u1 is again the sum of fileSize over the documents that remain.
C1_NoLostUpdate ==
  (req = EmptyBag /\ users["u1"].exists) => StorageMatchesDocuments("u1")

\* C2: in every reachable state, the intermediate states of the handlers and
\* of the backfill script included, storageUsed of every user is >= 0.
C2_StorageNeverNegative == \A u \in Users : users[u].storageUsed >= 0

\* A deletion has written the floor: what it read is less than the size.
C2_Witness ==
  \E rec \in Done(Deletes) :
    /\ rec.exit = "success"
    /\ rec.cur - rec.size < 0
    /\ users[rec.owner].storageUsed = 0
    /\ repair.pc # "idle"

\* C3: an upload that received a file and has completed, whatever its exit,
\* has deleted the temporary file unless the unlink itself failed, and its
\* status is the status of the exit whether or not the unlink failed.
C3_TempFileRemoved ==
  \A rec \in Done(Uploads) :
    rec.temp # "none" =>
      /\ rec.exit \in {"success", "notfound", "quota", "shorttext", "resetError",
                       "extractError", "generationError", "persistError",
                       "accountError"}
      /\ rec.temp = "deleted" \/ rec.unlinkFailed
      /\ rec.unlinkFailed => rec.temp = "present"
      /\ rec.status = StatusOf(rec.exit)

\* An upload fails at the accounting update and still removes the file.
C3_Witness ==
  \E rec \in Done(Uploads) :
    rec.exit = "accountError" /\ rec.temp = "deleted" /\ rec.status = 500

\* The upload has evaluated the quota check.
PastQuotaCheck(rec) ==
  rec.temp # "none" /\ rec.pc # "reset" /\ rec.exit \notin {"notfound", "resetError"}

\* C4: an upload goes on to extraction exactly when the row it holds after
\* the reset step has documentsUsed < getMonthlyLimit, and is otherwise
\* answered 403; a premium or admin row with monthlyLimit 5 and documentsUsed
\* 50 is let through, and on success documentsUsed is 51.
C4_QuotaDecision ==
  \A rec \in Uploads :
    PastQuotaCheck(rec) =>
      LET dbUser == rec.dbUser
          scenarioB == /\ dbUser.plan = "premium" \/ dbUser.role = "admin"
                       /\ dbUser.monthlyLimit = 5
                       /\ dbUser.documentsUsed = 50
      IN /\ rec.exit # "quota" <=> dbUser.documentsUsed < getMonthlyLimit(dbUser)
         /\ rec.exit = "quota" => rec.pc = "done" /\ rec.status = 403
         /\ scenarioB => rec.exit # "quota"
         /\ scenarioB /\ rec.exit = "success" => users[rec.user].documentsUsed = 51

\* A premium user at 50 of a configured 5 has uploaded: 51.
C4_Witness ==
  \E rec \in Done(Uploads) :
    /\ rec.exit = "success"
    /\ rec.dbUser.plan = "premium" /\ rec.dbUser.monthlyLimit = 5
    /\ rec.dbUser.documentsUsed = 50
    /\ users[rec.user].documentsUsed = 51

\* The request created no Document: it holds none and, when it is the first
\* request served, none has been created.
NoDocumentCreated(rec) == rec.docId = NoDoc /\ (started = 1 => nextId = FirstId)

\* The counters of the request's user are what they were when it arrived.
CountersUnchanged(rec) ==
  users[rec.user].exists => Counters(users[rec.user]) = rec.before

\* C5: an upload rejected by the quota check has created no Document and
\* leaves documentsUsed and storageUsed as they were before the request.
C5_RejectionChangesNothing ==
  \A rec \in Done(Uploads) :
    rec.exit = "quota" => NoDocumentCreated(rec) /\ CountersUnchanged(rec)

\* A free user at 5 of 5 is rejected.
C5_Witness ==
  \E rec \in Done(Uploads) :
    /\ rec.exit = "quota" /\ rec.status = 403
    /\ rec.dbUser.plan = "free" /\ rec.dbUser.role = "user"
    /\ rec.dbUser.monthlyLimit = 5 /\ rec.before.documentsUsed = 5
    /\ users[rec.user].documentsUsed = 5

\* C6: a successful upload of a file of size S has created one Document of
\* fileSize S owned by the uploader, and its one update of the user row
\* added 1 to documentsUsed and S to storageUsed as the row stood when the
\* update ran, whatever the handler had read before.
C6_SuccessAccounting ==
  \A rec \in Done(Uploads) :
    rec.exit = "success" =>
      LET u == rec.user
          document == [id |-> rec.docId, userId |-> u, fileSize |-> rec.size]
      IN /\ rec.docId # NoDoc
         /\ DocById(rec.docId) \subseteq {document}
         /\ started = 1 =>
              DocsOf(u) = {d \in InitDocs : d.userId = u} \cup {document}
         /\ users[u].documentsUsed = rec.pre.documentsUsed + 1
         /\ users[u].storageUsed = rec.pre.storageUsed + rec.size

\* The row had changed between the handler's read and its update.
C6_Witness ==
  \E rec \in Done(Uploads) :
    /\ rec.exit = "success"
    /\ rec.pre.documentsUsed # rec.dbUser.documentsUsed
    /\ DocById(rec.docId) # {}
    /\ users[rec.user].documentsUsed = rec.pre.documentsUsed + 1

\* The counters are as before the request but for the monthly reset, if the
\* request applied it: documentsUsed is then 0.
CountersUnchangedButReset(rec) ==
  users[rec.user].exists =>
    /\ users[rec.user].storageUsed = rec.before.storageUsed
    /\ users[rec.user].documentsUsed =
         IF "reset" \in rec.eff THEN 0 ELSE rec.before.documentsUsed

\* The update with the increments is issued only with the Document created.
IncrementAfterCreate(rec) ==
  rec.pc = "account" \/ "account" \in rec.eff =>
    rec.docId # NoDoc /\ nextId > FirstId

\* C7 as stated: the increments come after the creation of the Document,
\* and an upload whose creation fails ends with 500 and leaves documentsUsed
\* and storageUsed as they were before the request.
C7_Original ==
  \A rec \in Uploads :
    /\ IncrementAfterCreate(rec)
    /\ rec.exit = "persistError" =>
         rec.status = 500 /\ NoDocumentCreated(rec) /\ CountersUnchanged(rec)

\* C7 amended: the same, the counters being as before the request except
\* that a monthly reset applied earlier in the request stays applied.
C7_AccountingAfterPersistence ==
  \A rec \in Uploads :
    /\ IncrementAfterCreate(rec)
    /\ rec.exit = "persistError" =>
         rec.status = 500 /\ NoDocumentCreated(rec) /\ CountersUnchangedButReset(rec)

\* The creation has failed in a request that had reset the month.
C7_Witness ==
  \E rec \in Done(Uploads) :
    /\ rec.exit = "persistError"
    /\ users[rec.user].exists
    /\ users[rec.user].documentsUsed = 0 /\ rec.before.documentsUsed > 0

\* The temporary file is gone, unless the unlink failed.
TempRemoved(rec) == rec.temp = "deleted" \/ rec.unlinkFailed

\* C8 as stated: a failure of the generator ends the upload with 500, no
\* Document, documentsUsed and storageUsed unchanged, the temporary file
\* removed and the generator called once.
C8_Original ==
  \A rec \in Done(Uploads) :
    rec.exit = "generationError" =>
      /\ rec.status = 500 /\ NoDocumentCreated(rec) /\ CountersUnchanged(rec)
      /\ TempRemoved(rec) /\ rec.genCalls = 1

\* C8 amended: the same, the counters being as before the request except
\* that a monthly reset applied earlier in the request stays applied.
C8_GenerationFailure ==
  \A rec \in Done(Uploads) :
    rec.exit = "generationError" =>
      /\ rec.status = 500 /\ NoDocumentCreated(rec)
      /\ CountersUnchangedButReset(rec)
      /\ TempRemoved(rec) /\ rec.genCalls = 1

\* The generator has failed in a request that had reset the month.
C8_Witness ==
  \E rec \in Done(Uploads) :
    /\ rec.exit = "generationError" /\ rec.genCalls = 1 /\ rec.temp = "deleted"
    /\ users[rec.user].exists
    /\ users[rec.user].documentsUsed = 0 /\ rec.before.documentsUsed > 0

\* The extractor has returned a text that is empty or under the minimum.
ShortText(rec) == rec.textLen # -1 /\ rec.textLen < MinTextLength

\* C9 as stated: an upload whose text is empty or shorter than 50 characters
\* is rejected with a 4xx, the temporary file removed, the generator not
\* called, no Document created, documentsUsed and storageUsed unchanged.
C9_Original ==
  \A rec \in Uploads :
    ShortText(rec) =>
      /\ rec.pc = "done" /\ rec.exit = "shorttext" /\ rec.status \in 400..499
      /\ TempRemoved(rec) /\ rec.genCalls = 0
      /\ NoDocumentCreated(rec) /\ CountersUnchanged(rec)

\* C9 amended: the same, the counters being as before the request except
\* that a monthly reset applied earlier in the request stays applied.
C9_ShortTextRejected ==
  \A rec \in Uploads :
    ShortText(rec) =>
      /\ rec.pc = "done" /\ rec.exit = "shorttext" /\ rec.status \in 400..499
      /\ TempRemoved(rec) /\ rec.genCalls = 0
      /\ NoDocumentCreated(rec) /\ CountersUnchangedButReset(rec)

\* A text of 30 characters is rejected in a request that had reset the month.
C9_Witness ==
  \E rec \in Done(Uploads) :
    /\ rec.textLen = 30 /\ rec.exit = "shorttext" /\ rec.status = 400
    /\ rec.temp = "deleted"
    /\ users[rec.user].exists
    /\ users[rec.user].documentsUsed = 0 /\ rec.before.documentsUsed > 0

\* C10: a deletion, by either route, of a document of size S whose owner has
\* storageUsed U (the row as the deletion's update finds it) removes the
\* document and leaves storageUsed at max(U - S, 0).
C10_DeleteFloorsAtZero ==
  \A rec \in Done(Deletes) :
    rec.exit = "success" =>
      /\ DocById(rec.docId) = {}
      /\ rec.cur = rec.pre.storageUsed
      /\ users[rec.owner].storageUsed = Max(rec.pre.storageUsed - rec.size, 0)

\* The admin route deletes a document larger than the owner's storageUsed.
C10_Witness ==
  \E rec \in Done(Deletes) :
    /\ rec.kind = "adminDelete" /\ rec.exit = "success"
    /\ rec.pre.storageUsed < rec.size
    /\ users[rec.owner].storageUsed = 0

\* The documents the owner had at the start, and their sizes summed: the
\* storageUsed u1 starts with.
InitDocsOf(u) == {d \in InitDocs : d.userId = u}

\* C11: u1 starts with storageUsed U; when a document an upload created and
\* accounted for has been deleted again, and u1 holds the documents it
\* started with, storageUsed is U again.
C11_RoundTrip ==
  \A rec \in Done(Deletes) :
    (/\ rec.exit = "success"
     /\ rec.docId >= FirstId
     /\ rec.owner = "u1"
     /\ DocsOf("u1") = InitDocsOf("u1")) =>
      users["u1"].storageUsed = SumSizes(InitDocsOf("u1"))

\* The upload added S to U and the deletion of its document took S off.
C11_Witness ==
  \E rec \in Done(Deletes) :
    /\ rec.exit = "success" /\ rec.docId = FirstId /\ rec.owner = "u1"
    /\ rec.pre.storageUsed = SumSizes(InitDocsOf("u1")) + rec.size
    /\ users["u1"].storageUsed = SumSizes(InitDocsOf("u1"))

Profiles == {rec \in InFlight : rec.kind = "me"}

\* Thirty days or more have passed since the row's lastReset.
ThirtyDaysSince(lastReset) == now - lastReset >= 30

\* The request has evaluated the quota (upload) or reported it (GET /me).
QuotaEvaluated(rec) ==
  \/ rec.kind = "upload" /\ PastQuotaCheck(rec)
  \/ rec.kind = "me" /\ rec.exit = "success"

\* When a request evaluates or reports the quota, the reset is no longer due
\* on the row; a request that found it due evaluates documentsUsed = 0, is
\* not rejected for quota, and reports 0 used and the whole limit remaining.
ResetBeforeQuota ==
  \A rec \in Uploads \cup Profiles :
    QuotaEvaluated(rec) =>
      /\ users[rec.user].exists => ~ThirtyDaysSince(users[rec.user].lastReset)
      /\ rec.at # 0 =>
           /\ rec.dbUser.documentsUsed = 0
           /\ rec.exit # "quota"
           /\ rec.kind = "me" =>
                /\ rec.report.documentsUsed = 0
                /\ rec.report.remainingDocuments = rec.report.monthlyLimit

\* A step that changes lastReset is the reset: thirty days have passed, and
\* the one update sets documentsUsed to 0 and lastReset to now.  Otherwise
\* lastReset stays, and documentsUsed stays or is incremented by an upload.
ResetStep ==
  \A u \in Users :
    (users[u].exists /\ users'[u].exists) =>
      IF users'[u].lastReset # users[u].lastReset
      THEN /\ ThirtyDaysSince(users[u].lastReset)
           /\ users'[u].documentsUsed = 0
           /\ users'[u].lastReset = now
      ELSE users'[u].documentsUsed \in
             {users[u].documentsUsed, users[u].documentsUsed + 1}

\* C12: on an upload and on GET /me, when now - lastReset >= 30 days one
\* update sets documentsUsed to 0 and lastReset to now before the quota is
\* evaluated or reported, so that the request is not rejected for quota;
\* when fewer than 30 days have passed the reset step changes neither field.
C12_MonthlyReset == []ResetBeforeQuota /\ [][ResetStep]_vars

\* A free user at 5 of 5, the last reset 30 days old, uploads: 1 of 5.
C12_Witness ==
  \E rec \in Done(Uploads) :
    /\ rec.exit = "success" /\ rec.at # 0
    /\ rec.before.documentsUsed = 5 /\ rec.dbUser.monthlyLimit = 5
    /\ rec.dbUser.plan = "free" /\ rec.dbUser.role = "user"
    /\ users[rec.user].documentsUsed = 1
    /\ users[rec.user].lastReset = now

\* Rows of every plan and role, role absent included, with integer limits
\* on both sides of 0 and of the floor.
LimitInputs ==
  [plan : Plans, role : Roles \cup {"none"},
   monthlyLimit : {-2, 0} \cup Limits \cup {101}, documentsUsed : Useds]

\* The floor of the effective limit: 100 for premium plans and admins.
FloorOf(user) == IF user.plan = "premium" \/ user.role = "admin" THEN 100 ELSE 0

Reported == {rec \in Done(Profiles) : rec.exit = "success"}

\* C13: getMonthlyLimit(user) is max(monthlyLimit, floor), the floor 100 for
\* a premium plan or an admin role and 0 otherwise, for every plan, role and
\* integer monthlyLimit; GET /me reports that value.
C13_EffectiveLimit ==
  /\ \A user \in LimitInputs :
       getMonthlyLimit(user) = Max(user.monthlyLimit, FloorOf(user))
  /\ \A rec \in Reported :
       rec.report.monthlyLimit = Max(rec.dbUser.monthlyLimit, FloorOf(rec.dbUser))

\* A premium user with a configured 5 is reported 100.
C13_Witness ==
  \E rec \in Reported :
    /\ rec.dbUser.plan = "premium" /\ rec.dbUser.role = "user"
    /\ rec.dbUser.monthlyLimit = 5 /\ rec.report.monthlyLimit = 100

Privileged(user) == user.plan = "premium" \/ user.role = "admin"

\* C14 as stated: the effective limit of a row is >= 100 exactly when the
\* plan is premium or the role admin, and is monthlyLimit otherwise.
C14_Original ==
  \A rec \in Reported :
    /\ rec.report.monthlyLimit >= 100 <=> Privileged(rec.dbUser)
    /\ ~Privileged(rec.dbUser) => rec.report.monthlyLimit = rec.dbUser.monthlyLimit

\* C14 amended: the effective limit is >= 100 when the plan is premium or
\* the role admin; otherwise it is monthlyLimit, and so >= 100 exactly when
\* monthlyLimit is.
C14_FloorOnlyForPrivileged ==
  \A rec \in Reported :
    /\ Privileged(rec.dbUser) => rec.report.monthlyLimit >= 100
    /\ ~Privileged(rec.dbUser) => rec.report.monthlyLimit = rec.dbUser.monthlyLimit
    /\ rec.report.monthlyLimit >= 100 <=>
         (Privileged(rec.dbUser) \/ rec.dbUser.monthlyLimit >= 100)

\* A free user an admin gave a limit of 150 is reported 150.
C14_Witness ==
  \E rec \in Reported :
    /\ rec.dbUser.plan = "free" /\ rec.dbUser.role = "user"
    /\ rec.dbUser.monthlyLimit = 150 /\ rec.report.monthlyLimit = 150

\* C15: getRemainingDocuments(user) and the remainingDocuments GET /me
\* reports are max(effective limit - documentsUsed, 0), never negative,
\* also when documentsUsed is above the effective limit.
C15_RemainingNeverNegative ==
  /\ \A user \in LimitInputs :
       /\ getRemainingDocuments(user) =
            Max(Max(user.monthlyLimit, FloorOf(user)) - user.documentsUsed, 0)
       /\ getRemainingDocuments(user) >= 0
  /\ \A rec \in Reported :
       /\ rec.report.remainingDocuments =
            Max(Max(rec.dbUser.monthlyLimit, FloorOf(rec.dbUser))
                  - rec.dbUser.documentsUsed, 0)
       /\ rec.report.remainingDocuments = getRemainingDocuments(rec.dbUser)
       /\ rec.report.remainingDocuments >= 0

\* A free user at 6 of 5 is reported 0 remaining.
C15_Witness ==
  \E rec \in Reported :
    /\ rec.dbUser.documentsUsed = 6 /\ rec.report.monthlyLimit = 5
    /\ rec.at = 0
    /\ rec.report.remainingDocuments = 0

\* The step that completes a run of the script.
ScriptCompletes == repair.pc = "grouped" /\ repair'.pc = "idle"

\* Every storageUsed is the sum of fileSize over the user's documents.
Repaired(us, ds) ==
  \A u \in Users : us[u].storageUsed = SumSizes({d \in ds : d.userId = u})

\* C16: when the script completes, no upload or deletion having run during
\* it, the storageUsed of every user is the sum of fileSize over the user's
\* documents, 0 for a user with none, whatever the counters were.
C16_RepairRestoresSums ==
  [][ScriptCompletes => (docs' = docs /\ Repaired(users', docs'))]_vars

\* The script has given u2, whose counter started at 0, the size of its
\* document, and u1 has none left and 0.
C16_Witness ==
  /\ repair.pc = "idle" /\ req = EmptyBag
  /\ users["u2"].storageUsed = SumSizes(InitDocsOf("u2"))
  /\ DocsOf("u2") = InitDocsOf("u2")
  /\ DocsOf("u1") = {} /\ users["u1"].storageUsed = 0

\* C17: for the documents as they are, a second run of the script after a
\* first leaves every row as the first left it; and the run in progress
\* ends in the rows RepairResult gives.
C17_RepairIdempotent ==
  /\ RepairResult(RepairResult(users, docs), docs) = RepairResult(users, docs)
  /\ repair.pc = "zeroed" => Applied(users, GroupBy(docs)) = RepairResult(users, docs)
  /\ repair.pc = "grouped" => Applied(users, repair.summaries) = RepairResult(users, docs)

\* A run is about to complete on rows it will change: storageUsed of u2 is
\* 0 and its document is there.
C17_Witness ==
  /\ repair.pc = "grouped"
  /\ RepairResult(users, docs) # users
  /\ started > 0
  /\ DocsOf("u2") # {}

ClientError(status) == status \in 400..499
ServerError(status) == status \in 500..599

\* C18: every failed upload answers with the status of its category: no
\* file, too little text, a media type off the allow-list or a file over
\* the size limit give 4xx; user absent gives 404; quota exceeded gives 403;
\* an exception in extraction or generation gives 5xx.
C18_StatusByCategory ==
  \A rec \in Done(Uploads) :
    /\ rec.exit \in {"nofile", "shorttext", "filetype", "filesize"} => ClientError(rec.status)
    /\ rec.exit = "notfound" => rec.status = 404
    /\ rec.exit = "quota" => rec.status = 403
    /\ rec.exit \in {"extractError", "generationError"} => ServerError(rec.status)

\* The requests that arrive in this step.
Arriving(kind) == {rec \in BagToSet(req') \ InFlight : rec.kind = kind /\ started' = started + 1}

\* The deletion in flight that removes document d, or the deletion of d's
\* owner by an admin, which takes the owner's documents along.
RemovedByOwnerOrAdmin(d) ==
  \/ \E rec \in Deletes :
       /\ rec.pc = "delete" /\ rec.docId = d.id
       /\ rec.kind = "ownerDelete" => (rec.user = d.userId \/ rec.isAdmin)
       /\ rec.kind = "adminDelete" => (rec.isAdmin /\ rec.owner = d.userId)
  \/ users[d.userId].exists /\ ~users'[d.userId].exists

\* C19: a document leaves the table only through a deletion by its owner or
\* by an admin; DELETE /document/:id from anyone else is answered 403, and
\* the admin route on a document whose userId is not :id is answered 404,
\* both done at once with the documents and every user row as they were.
C19_OnlyOwnerOrAdminDeletes ==
  [][/\ \A d \in docs \ docs' : RemovedByOwnerOrAdmin(d)
     /\ \A rec \in Arriving("ownerDelete") : \A d \in DocById(rec.docId) :
          (d.userId # rec.user /\ users[rec.user].role # "admin") =>
            /\ rec.pc = "done" /\ rec.status = 403 /\ rec.eff = {}
            /\ docs' = docs /\ users' = users
     /\ \A rec \in Arriving("adminDelete") : \A d \in DocById(rec.docId) :
          d.userId # rec.owner =>
            /\ rec.pc = "done" /\ rec.status = 404 /\ rec.eff = {}
            /\ docs' = docs /\ users' = users]_vars

\* A user who is neither the owner nor an admin has been refused with 403
\* and the document is there; an earlier deletion has gone through.
C19_Witness ==
  \E rec \in Done(Deletes) :
    /\ rec.kind = "ownerDelete" /\ rec.exit = "forbidden" /\ rec.status = 403
    /\ ~rec.isAdmin
    /\ \E d \in DocById(rec.docId) : d.userId # rec.user
    /\ Cardinality(docs) < Cardinality(InitDocs)

\* The admin file deletions whose logAdminAction has run in this step.
Audited == {rec \in BagToSet(req') \ InFlight :
              rec.kind = "adminDelete" /\ rec.audit \in {"written", "failed"}}

\* C20: on the admin file deletion, whether the audit-log write succeeds or
\* throws, the step writes the same storageUsed (the read value less the
\* size, floored at 0), changes nothing else, and sends the same 200.
C20_AuditFailureSwallowed ==
  [][\A rec \in Audited :
       /\ rec.pc = "done" /\ rec.exit = "success" /\ rec.status = 200
       /\ users' = [users EXCEPT ![rec.owner].storageUsed =
                                   NextStorage(rec.cur, rec.size)]
       /\ docs' = docs /\ nextId' = nextId]_vars

\* An admin file deletion whose audit-log write failed has answered 200,
\* the document gone and the owner's counter written.
C20_Witness ==
  \E rec \in Done(Deletes) :
    /\ rec.kind = "adminDelete" /\ rec.audit = "failed"
    /\ rec.status = 200 /\ "storage" \in rec.eff
    /\ DocById(rec.docId) = {}
    /\ users[rec.owner].storageUsed = NextStorage(rec.cur, rec.size)

\* Valid JSON wrapped in a code fence, the opening fence with the tag json
\* or with none, whitespace allowed around the fences and the value.
FencedJson(text) ==
  LET t == Trim(text)
  IN /\ Len(t) >= 3 /\ t[1] = "fence" /\ t[Len(t)] = "fence"
     /\ \/ Trim(SubSeq(t, 2, Len(t) - 1)) = <<"{}">>
        \/ t[2] = "json" /\ Trim(SubSeq(t, 3, Len(t) - 1)) = <<"{}">>

\* The uploads whose generator call has returned or thrown on a response.
Generated == {rec \in Uploads : rec.genCalls = 1 /\ rec.pc # "generate"}

\* C21: on valid JSON in a code fence, with the tag json after the opening
\* fence or with none, generateStudyMaterials returns the parsed object; on
\* a text that is not valid JSON once the fence is off it throws.
C21_FenceStripped ==
  \A rec \in Generated :
    /\ FencedJson(rec.responseText) => rec.exit # "generationError"
    /\ ParseThrows(cleanedResponse(rec.responseText)) => rec.exit = "generationError"

\* C22: while no monthly reset is due (the clock short of ResetDays since
\* lastReset), documentsUsed of an uploader is at most getMonthlyLimit of
\* its row, however its upload requests interleave.
C22_QuotaNeverExceeded ==
  \A u \in Uploaders :
    (users[u].exists /\ ~ResetDue(now, users[u].lastReset)) =>
      users[u].documentsUsed <= getMonthlyLimit(users[u])

\* C23: an upload that answers 4xx or 5xx has created no Document; the
\* Document of a finished upload is there only with the counters
\* incremented and a 200, also when the accounting update throws.
C23_ErrorCreatesNoDocument ==
  \A rec \in Done(Uploads) :
    /\ rec.status >= 400 => DocById(rec.docId) = {}
    /\ DocById(rec.docId) # {} => ("account" \in rec.eff /\ rec.status = 200)

\* C24: the monthly reset takes effect once: documentsUsed of a row that
\* stays goes down only by a reset that is due on the row as it is stored,
\* so no reset erases an increment accounted after an earlier reset.
C24_ResetOnce ==
  [][\A u \in Users :
       (users'[u].exists /\ users'[u].documentsUsed < users[u].documentsUsed) =>
         ResetDue(now, users[u].lastReset)]_vars

\* The deletions of document id whose prisma.document.delete has gone
\* through: they go on to subtract the size and to answer 200.
PastDelete(id) ==
  {rec \in Deletes : rec.docId = id /\ (rec.pc \in {"read", "write"} \/ rec.exit = "success")}

\* The deletions whose prisma.document.delete goes through in this step.
Deleting == {rec \in BagToSet(req') : rec.kind \in {"ownerDelete", "adminDelete"}
                                       /\ rec.pc = "read"
                                       /\ CopiesIn(rec, req') > CopiesIn(rec, req)}

\* C25: of the deletions of one document, on either route, at most one gets
\* past prisma.document.delete, and so at most one subtracts the fileSize
\* from the owner's storageUsed and answers 200: the document is gone for
\* the others, and no later document takes its id.
C25_DeletedOnce ==
  /\ [](\A id \in 1..nextId :
         /\ \A r1, r2 \in PastDelete(id) : r1 = r2 /\ CopiesIn(r1, req) = 1
         /\ PastDelete(id) # {} => DocById(id) = {}
         /\ DocById(id) # {} => id < nextId)
  /\ [][\A rec \in Deleting : DocById(rec.docId) # {} /\ docs' = docs \ DocById(rec.docId)]_vars

\* The second of two deletions of one document has failed on
\* prisma.document.delete: the document is gone, its owner is there.
C25_Witness ==
  \E rec \in Done(Deletes) :
    /\ rec.exit = "deleteError" /\ rec.status = 500 /\ rec.eff = {}
    /\ DocById(rec.docId) = {}
    /\ rec.owner = "u1" /\ users["u1"].exists
    /\ users["u1"].storageUsed = 0

\* The deletion requests that take a step in this step.
DeleteSteps == {rec \in BagToSet(req') : rec.kind \in {"ownerDelete", "adminDelete"}
                                          /\ CopiesIn(rec, req') > CopiesIn(rec, req)}

\* C26: a step of a deletion changes nothing but the Document it deletes and
\* storageUsed of that document's owner: documentsUsed, lastReset and the
\* rest of every row stay, the rows of the other users stay whole (the
\* admin's own when it deletes through DELETE /document/:id), no other
\* document goes and none is created.
C26_DeleteFrame ==
  [][\A rec \in DeleteSteps :
       /\ \A u \in Users : [users'[u] EXCEPT !.storageUsed = 0]
                              = [users[u] EXCEPT !.storageUsed = 0]
       /\ \A u \in Users \ {rec.owner} : users'[u] = users[u]
       /\ docs' # docs =>
            \E d \in docs : /\ d.id = rec.docId /\ d.userId = rec.owner
                            /\ d.fileSize = rec.size
                            /\ docs' = docs \ {d}
       /\ nextId' = nextId]_vars

\* The admin u2 has deleted the document of u1 through DELETE /document/:id:
\* storageUsed of u1 went from 3 to 0, its documentsUsed is what it was.
C26_Witness ==
  \E rec \in Done(Deletes) :
    /\ rec.kind = "ownerDelete" /\ rec.isAdmin
    /\ rec.user = "u2" /\ rec.owner = "u1" /\ rec.exit = "success"
    /\ rec.pre.storageUsed = 3 /\ users["u1"].storageUsed = 0
    /\ users["u1"].documentsUsed = rec.pre.documentsUsed
    /\ users["u1"].documentsUsed > 0

\* C27: the script having run with requests in flight during it, once it
\* and they have completed storageUsed of every user is the sum of fileSize
\* over the user's documents.
C27_RepairDuringRequests ==
  (repair.pc = "idle" /\ req = EmptyBag /\ started > 0) =>
    \A u \in Users : StorageMatchesDocuments(u)

\* C28: in every window, opened by a request at time t and holding the
\* requests of its key that arrive up to t + windowMs, at most max requests
\* are passed to next(); a request is answered 429 exactly when more than
\* max have arrived in its window; the first request after t + windowMs
\* opens a new window with count 1 and is passed on.
C28_RateLimit ==
  /\ \A key \in Keys :
       /\ limiter.seen[key].passed <= limiter.max
       /\ limiter.hits[key].start = limiter.seen[key].start
       /\ limiter.hits[key].count = limiter.seen[key].arrived
  /\ limiter.last.key \in Keys =>
       LET window == limiter.seen[limiter.last.key]
       IN /\ limiter.last.status = TooManyRequests <=> window.arrived > limiter.max
          /\ limiter.last.status \in {TooManyRequests, PassedOn}
          /\ window.start = limiter.last.at =>
               (window.arrived = 1 => limiter.last.status = PassedOn)

\* A request arriving exactly windowMs after the one that opened its window
\* has been answered 429, max requests of the window having been passed on.
C28_Witness ==
  /\ limiter.last.key \in Keys
  /\ limiter.last.status = TooManyRequests
  /\ limiter.last.at = limiter.seen[limiter.last.key].start + limiter.windowMs
  /\ limiter.seen[limiter.last.key].passed = limiter.max
  /\ limiter.seen[limiter.last.key].start > 0
====
